---------------------------- MODULE Spec2Model ----------------------------
(***************************************************************************)
(* Model of the streaming event pipeline of alpaca-finance                 *)
(* (src/src/streaming.rs): Streamer::new, Streamer::start (socket setup,   *)
(* the spawned writer task, the reader filter_map pipeline) and            *)
(* Streamer::stop, with the socket, the runtime and the caller as the      *)
(* environment (Spec, FairSpec); and of the REST operations                *)
(* OrderBuilder::place, Order::cancel, Account::get and the field decoder  *)
(* util::to_i32, with the server's reply as the environment (RestSpec).    *)
(***************************************************************************)
EXTENDS Integers, Sequences, FiniteSets, TLC

(* Bound on the number of items the socket's read half delivers. *)
MaxInbound == 3

VARIABLES
  workers,     \* worker threads of the runtime the caller chose (1 = current-thread)
  socket,      \* "none" | "connecting" | "open" | "refused" | "closed"
  started,     \* "none" | "pending" | "stream" | "panic": what start() gave its caller
  shutdown,    \* Streamer.shutdown: Arc<Mutex<bool>>
  queue,       \* frames in the mpsc channel (tx, rx)
  wpc,         \* position of the spawned writer task
  wmsg,        \* the frame the writer took from the channel and is sending
  wlate,       \* history: the flag was already true when the writer took wmsg
  written,     \* frames the writer wrote to the sink, in order
  rpc,         \* state of the returned event stream (the reader pipeline)
  alive,       \* the event stream value (and pong_tx, source) has not been dropped
  taken,       \* items the reader pipeline took from the socket's read half
  events,      \* items the event stream yielded to the caller
  call,        \* the REST operation (or field decode) invoked, with its inputs
  http,        \* the HTTP requests the operation issued, in order
  outcome      \* what the operation returned to its caller

restVars == <<call, http, outcome>>

streamVars == <<workers, socket, started, shutdown, queue, wpc, wmsg, wlate,
                written, rpc, alive, taken, events>>

vars == <<workers, socket, started, shutdown, queue, wpc, wmsg, wlate, written,
          rpc, alive, taken, events, call, http, outcome>>

--------------------------------------------------------------------------
(* Frames *)

NoMsg == [kind |-> "none"]

(* Message::Text(auth_block): the serialized Authenticate action. *)
AuthFrame == [kind |-> "Text", action |-> "authenticate"]

(* Message::Text(msg): the serialized Listen action and its stream names. *)
ListenFrame ==
  [kind |-> "Text", action |-> "listen",
   streams |-> <<"trade_updates", "account_updates">>]

(* Message::Pong("pong".as_bytes().to_vec()) *)
PongFrame == [kind |-> "Pong", data |-> "pong"]

(* Mutation of SetupFrames: the two sends in the other order. *)
SetupFramesSwapped == <<ListenFrame, AuthFrame>>

(* The two tx.send calls of start(), in program order. *)
SetupFrames == <<AuthFrame, ListenFrame>>

(* The stream tags StreamMessage deserializes, and the variant of each. *)
StreamTags == {"account_updates", "authorization", "listening", "trade_updates"}

VariantOf(tag) ==
  CASE tag = "account_updates" -> "Account"
    [] tag = "authorization"   -> "Authorization"
    [] tag = "listening"       -> "Listening"
    [] tag = "trade_updates"   -> "Order"

(* Wire texts: wf says the text is JSON whose data matches the tagged      *)
(* variant; stream is its "stream" tag; data identifies its content.       *)
Texts(n) ==
  {[wf |-> TRUE, stream |-> t, data |-> n] : t \in StreamTags \cup {"quotes"}}
    \cup {[wf |-> FALSE, stream |-> "trade_updates", data |-> n]}

(* Byte strings: the UTF-8 encoding of a wire text (one forwarded tag, one  *)
(* consumed tag, one text that does not decode), or bytes that are not     *)
(* UTF-8.                                                                  *)
Bytes(n) ==
  {[utf8 |-> TRUE, text |-> s] :
     s \in {t \in Texts(n) : t.stream \in {"trade_updates", "authorization"}}}
    \cup {[utf8 |-> FALSE, text |-> [wf |-> FALSE, stream |-> "", data |-> n]]}

(* What the read half of the socket can yield: Some(Ok(Message)) or Some(Err(e)). *)
Inbound(n) ==
  {[kind |-> "Ping"], [kind |-> "Pong"], [kind |-> "Close"], [kind |-> "Err"]}
    \cup {[kind |-> "Text", value |-> s] : s \in Texts(n)}
    \cup {[kind |-> "Binary", value |-> b] : b \in Bytes(n)}

(* String::from_utf8(value) *)
from_utf8(b) ==
  IF b.utf8 THEN [ok |-> TRUE, value |-> b.text] ELSE [ok |-> FALSE]

(* serde_json::from_str::<StreamMessage>(&msg) *)
from_str(s) ==
  IF s.wf /\ s.stream \in StreamTags
    THEN [ok |-> TRUE, msg |-> [variant |-> VariantOf(s.stream), data |-> s.data]]
    ELSE [ok |-> FALSE]

(* Mutation of Forwards: the match without its catch-all arm. *)
ForwardsAll(msg) == TRUE

(* The second filter_map's match: Order and Account are kept, the rest dropped. *)
Forwards(msg) == msg.variant \in {"Order", "Account"}

--------------------------------------------------------------------------
(* Runtime *)

WriterExited == wpc \in {"done", "panic_recv", "panic_send"}

(* rx lives in the writer task: the channel has a receiver until the task ends. *)
ReceiverAlive == ~WriterExited

(* tx is dropped when start() returns; pong_tx lives in the event stream. *)
SenderAlive == alive

(* On a current-thread runtime the caller runs only while the writer task  *)
(* is not running: before its first poll, at its await, or after it ended. *)
(* The blocking rx.recv() is not an await.                                 *)
CallerCanRun ==
  workers > 1 \/ wpc \in {"none", "spawned", "send", "done", "panic_recv", "panic_send"}

--------------------------------------------------------------------------
(* Streamer::new: the flag starts false; nothing else exists yet. *)
Init ==
  /\ workers \in {1, 2}
  /\ socket = "none"
  /\ started = "none"
  /\ shutdown = FALSE
  /\ queue = <<>>
  /\ wpc = "none"
  /\ wmsg = NoMsg
  /\ wlate = FALSE
  /\ written = <<>>
  /\ rpc = "none"
  /\ alive = FALSE
  /\ taken = <<>>
  /\ events = <<>>
  /\ call = [op |-> "none"]
  /\ http = <<>>
  /\ outcome = [kind |-> "none"]

(* start(): up to the await of connect_async(host). *)
StartCall ==
  /\ started = "none"
  /\ started' = "pending"
  /\ socket' = "connecting"
  /\ UNCHANGED <<restVars, workers, shutdown, queue, wpc, wmsg, wlate, written, rpc, alive, taken, events>>

(* connect_async gave Ok: the two tx.send, the spawn, and the stream is returned. *)
ConnectOk ==
  /\ started = "pending"
  /\ socket' = "open"
  /\ queue' = SetupFrames
  /\ wpc' = "spawned"
  /\ rpc' = "open"
  /\ alive' = TRUE
  /\ started' = "stream"
  /\ UNCHANGED <<restVars, workers, shutdown, wmsg, wlate, written, taken, events>>

(* connect_async gave Err: .unwrap() panics inside start(). *)
ConnectFail ==
  /\ started = "pending"
  /\ socket' = "refused"
  /\ started' = "panic"
  /\ UNCHANGED <<restVars, workers, shutdown, queue, wpc, wmsg, wlate, written, rpc, alive, taken, events>>

(* Mutation of Stop: the flag is flipped instead of set. *)
StopToggle ==
  /\ shutdown' = ~shutdown
  /\ UNCHANGED <<restVars, workers, socket, started, queue, wpc, wmsg, wlate, written, rpc, alive, taken, events>>

(* stop(): *shutdown = true *)
Stop ==
  /\ shutdown' = TRUE
  /\ UNCHANGED <<restVars, workers, socket, started, queue, wpc, wmsg, wlate, written, rpc, alive, taken, events>>

--------------------------------------------------------------------------
(* The writer task *)

(* if *(shutdown.lock().unwrap()) { break; } *)
WriterCheck ==
  /\ wpc \in {"spawned", "check"}
  /\ wpc' = IF shutdown THEN "done" ELSE "recv"
  /\ UNCHANGED <<restVars, workers, socket, started, shutdown, queue, wmsg, wlate, written, rpc, alive, taken, events>>

(* Mutation of WriterRecv: the newest frame of the channel is taken first. *)
WriterRecvNewest ==
  /\ wpc = "recv"
  /\ \/ /\ queue # <<>>
        /\ wmsg' = queue[Len(queue)]
        /\ wlate' = shutdown
        /\ queue' = SubSeq(queue, 1, Len(queue) - 1)
        /\ wpc' = "send"
     \/ /\ queue = <<>>
        /\ ~SenderAlive
        /\ wpc' = "panic_recv"
        /\ UNCHANGED <<wmsg, wlate, queue>>
  /\ UNCHANGED <<restVars, workers, socket, started, shutdown, written, rpc, alive, taken, events>>

(* rx.recv().unwrap(): blocks while the channel is empty and has a sender; *)
(* Err (and the panic) once it is empty and every sender is gone.          *)
WriterRecv ==
  /\ wpc = "recv"
  /\ \/ /\ queue # <<>>
        /\ wmsg' = Head(queue)
        /\ wlate' = shutdown
        /\ queue' = Tail(queue)
        /\ wpc' = "send"
     \/ /\ queue = <<>>
        /\ ~SenderAlive
        /\ wpc' = "panic_recv"
        /\ UNCHANGED <<wmsg, wlate, queue>>
  /\ UNCHANGED <<restVars, workers, socket, started, shutdown, written, rpc, alive, taken, events>>

(* sink.send(msg).await.unwrap(): the frame is written, or the write fails. *)
WriterSend ==
  /\ wpc = "send"
  /\ \/ /\ written' = Append(written, wmsg)
        /\ wpc' = "check"
     \/ /\ wpc' = "panic_send"
        /\ UNCHANGED written
  /\ wmsg' = NoMsg
  /\ wlate' = FALSE
  /\ UNCHANGED <<restVars, workers, socket, started, shutdown, queue, rpc, alive, taken, events>>

--------------------------------------------------------------------------
(* The reader pipeline: one poll of the returned stream that takes one item *)

(* Second filter_map: decode, keep Order and Account. *)
DecodeStage(s) ==
  LET r == from_str(s) IN
  IF ~r.ok
    THEN /\ rpc' = "panic_json"
         /\ alive' = FALSE
         /\ UNCHANGED events
    ELSE /\ events' = IF Forwards(r.msg) THEN Append(events, r.msg) ELSE events
         /\ UNCHANGED <<rpc, alive>>

(* First filter_map, then the second for what it passes on. *)
ReaderFrame(f) ==
  /\ rpc = "open"
  /\ alive
  /\ CallerCanRun
  /\ Len(taken) < MaxInbound
  /\ taken' = Append(taken, f)
  /\ CASE f.kind = "Err" ->
            /\ rpc' = "panic_read"
            /\ alive' = FALSE
            /\ UNCHANGED <<queue, shutdown, events>>
       [] f.kind = "Ping" ->
            IF ReceiverAlive
              THEN /\ queue' = Append(queue, PongFrame)
                   /\ UNCHANGED <<rpc, alive, shutdown, events>>
              ELSE /\ rpc' = "panic_pong"
                   /\ alive' = FALSE
                   /\ UNCHANGED <<queue, shutdown, events>>
       [] f.kind = "Close" ->
            /\ shutdown' = TRUE
            /\ UNCHANGED <<queue, rpc, alive, events>>
       [] f.kind = "Text" ->
            /\ DecodeStage(f.value)
            /\ UNCHANGED <<queue, shutdown>>
       [] f.kind = "Binary" ->
            LET u == from_utf8(f.value) IN
            IF u.ok
              THEN /\ DecodeStage(u.value)
                   /\ UNCHANGED <<queue, shutdown>>
              ELSE /\ rpc' = "panic_utf8"
                   /\ alive' = FALSE
                   /\ UNCHANGED <<queue, shutdown, events>>
       [] OTHER ->
            UNCHANGED <<queue, rpc, alive, shutdown, events>>
  /\ UNCHANGED <<restVars, workers, socket, started, wpc, wmsg, wlate, written>>

ReaderStep == \E f \in Inbound(Len(taken) + 1) : ReaderFrame(f)

(* The read half yields None (the socket closed): the event stream ends. *)
SocketClosed ==
  /\ rpc = "open"
  /\ alive
  /\ CallerCanRun
  /\ rpc' = "ended"
  /\ socket' = "closed"
  /\ UNCHANGED <<restVars, workers, started, shutdown, queue, wpc, wmsg, wlate, written, alive, taken, events>>

(* The caller drops the event stream, and pong_tx and the read half with it. *)
DropStream ==
  /\ alive
  /\ CallerCanRun
  /\ alive' = FALSE
  /\ UNCHANGED <<restVars, workers, socket, started, shutdown, queue, wpc, wmsg, wlate, written, rpc, taken, events>>

--------------------------------------------------------------------------
Next ==
  \/ StartCall
  \/ ConnectOk
  \/ ConnectFail
  \/ Stop
  \/ WriterCheck
  \/ WriterRecv
  \/ WriterSend
  \/ ReaderStep
  \/ SocketClosed
  \/ DropStream

Spec == Init /\ [][Next]_vars

(* The runtime keeps polling the spawned writer task while it can run; the *)
(* socket's deliveries, the caller's polls and stop() are under no duty.   *)
FairSpec ==
  Spec /\ WF_vars(WriterCheck) /\ WF_vars(WriterRecv) /\ WF_vars(WriterSend)

--------------------------------------------------------------------------
(* REST operations: one call, the server's reply as input *)
(* An Alpaca value exists only after Alpaca::build parsed its host, so     *)
(* Alpaca::request is modelled as succeeding.                              *)

(* What the HTTP layer gives a request: a transport failure, or a response *)
(* with a status and a body that does or does not decode as the wanted type. *)
Replies ==
  {[transport |-> "fail"]}
    \cup {[transport |-> "ok", status |-> st, body |-> b] :
            st \in {200, 204, 401, 403, 404, 422, 500}, b \in {"valid", "corrupt"}}

(* StatusCode::is_success *)
is_success(status) == status \in 200..299

OrderTypes == {"Limit", "Market", "Stop", "StopLimit"}

TimesInForce == {"CLS", "DAY", "FOK", "GTC", "IOC", "OPG"}

(* The OrderBuilder values: prices are abstracted to None / Some. *)
Builders ==
  [order_type : OrderTypes, time_in_force : TimesInForce,
   limit_price : {"None", "Some"}, stop_price : {"None", "Some"},
   extended_hours : BOOLEAN]

OrderIds == {"id1", "id2"}

Ok(v) == [kind |-> "Ok", value |-> v]

Err(k) == [kind |-> k]

(* Mutation of InvalidReason: the stop-price check covers Stop only. *)
InvalidReasonStopOnly(b) ==
  IF b.order_type \in {"Limit", "StopLimit"} /\ b.limit_price = "None"
    THEN "Limit orders need a limit price."
  ELSE IF b.order_type = "Stop" /\ b.stop_price = "None"
    THEN "Stop orders need a stop price."
  ELSE IF b.extended_hours /\ (b.order_type # "Limit" \/ b.time_in_force # "DAY")
    THEN "Extended hours only works limit orders for today"
  ELSE "none"

(* The three checks at the head of OrderBuilder::place, in program order. *)
InvalidReason(b) ==
  IF b.order_type \in {"Limit", "StopLimit"} /\ b.limit_price = "None"
    THEN "Limit orders need a limit price."
  ELSE IF b.order_type \in {"Stop", "StopLimit"} /\ b.stop_price = "None"
    THEN "Stop orders need a stop price."
  ELSE IF b.extended_hours /\ (b.order_type # "Limit" \/ b.time_in_force # "DAY")
    THEN "Extended hours only works limit orders for today"
  ELSE "none"

(* OrderBuilder::place. Error::InvalidOrder(reason) is the OrderInvalid    *)
(* kind of error.rs; an error passed on by `?` is the kind "Propagated".   *)
Place(b, reply) ==
  /\ call.op = "none"
  /\ call' = [op |-> "place", builder |-> b, reply |-> reply]
  /\ IF InvalidReason(b) # "none"
       THEN /\ http' = http
            /\ outcome' = [kind |-> "OrderInvalid", reason |-> InvalidReason(b)]
       ELSE /\ http' = Append(http, [method |-> "POST", path |-> "v2/orders"])
            /\ outcome' =
                 IF reply.transport = "fail" THEN Err("Propagated")
                 ELSE IF is_success(reply.status)
                   THEN IF reply.body = "valid" THEN Ok("Order") ELSE Err("Propagated")
                 ELSE IF reply.status = 403 THEN Err("OrderForbidden")
                 ELSE Err("Unknown")
  /\ UNCHANGED streamVars

PlaceOrder == \E b \in Builders, reply \in Replies : Place(b, reply)

(* Mutation of CancelResult: the 404 and 422 arms are exchanged. *)
CancelResultSwapped(id, reply) ==
  IF reply.transport = "fail" THEN Err("Propagated")
  ELSE IF is_success(reply.status) THEN Ok("()")
  ELSE IF reply.status = 404 THEN [kind |-> "OrderNotCancelable", order_id |-> id]
  ELSE IF reply.status = 422 THEN [kind |-> "OrderNotFound", order_id |-> id]
  ELSE Err("Unknown")

(* The result of Order::cancel for the reply to its DELETE. *)
CancelResult(id, reply) ==
  IF reply.transport = "fail" THEN Err("Propagated")
  ELSE IF is_success(reply.status) THEN Ok("()")
  ELSE IF reply.status = 404 THEN [kind |-> "OrderNotFound", order_id |-> id]
  ELSE IF reply.status = 422 THEN [kind |-> "OrderNotCancelable", order_id |-> id]
  ELSE Err("Unknown")

(* Order::cancel *)
Cancel(id, reply) ==
  /\ call.op = "none"
  /\ call' = [op |-> "cancel", id |-> id, reply |-> reply]
  /\ http' = Append(http, [method |-> "DELETE", path |-> "v2/orders/{}", id |-> id])
  /\ outcome' = CancelResult(id, reply)
  /\ UNCHANGED streamVars

CancelOrder == \E id \in OrderIds, reply \in Replies : Cancel(id, reply)

(* Mutation of AccountResult: the body is decoded before the status is read. *)
AccountResultBodyFirst(reply) ==
  IF reply.transport = "fail" THEN Err("RequestFailed")
  ELSE IF reply.body # "valid" THEN Err("BadData")
  ELSE IF ~is_success(reply.status) THEN Err("InvalidCredentials")
  ELSE Ok("Account")

(* The result of Account::get for the reply to its GET. *)
AccountResult(reply) ==
  IF reply.transport = "fail" THEN Err("RequestFailed")
  ELSE IF ~is_success(reply.status) THEN Err("InvalidCredentials")
  ELSE IF reply.body # "valid" THEN Err("BadData")
  ELSE Ok("Account")

(* Account::get *)
GetAccount(reply) ==
  /\ call.op = "none"
  /\ call' = [op |-> "account", reply |-> reply]
  /\ http' = Append(http, [method |-> "GET", path |-> "v2/account"])
  /\ outcome' = AccountResult(reply)
  /\ UNCHANGED streamVars

FetchAccount == \E reply \in Replies : GetAccount(reply)

--------------------------------------------------------------------------
(* util::to_i32. Values reach far beyond 32 bits, so an integer is kept as *)
(* its decimal text (sign and digits) and its magnitude is computed in     *)
(* 16-bit limbs, lowest first.                                             *)

MaxI32 == 2147483647

MinI32 == -MaxI32 - 1

Dec(neg, digits) == [neg |-> neg, digits |-> digits]

(* The canonical decimal texts of the integers decoded. *)
IntTexts ==
  { Dec(FALSE, <<0>>), Dec(FALSE, <<7>>), Dec(TRUE, <<7>>),
    Dec(FALSE, <<1,5>>), Dec(TRUE, <<1,5>>),
    Dec(FALSE, <<2,1,4,7,4,8,3,6,4,7>>), Dec(FALSE, <<2,1,4,7,4,8,3,6,4,8>>),
    Dec(TRUE, <<2,1,4,7,4,8,3,6,4,8>>), Dec(TRUE, <<2,1,4,7,4,8,3,6,4,9>>),
    Dec(FALSE, <<4,2,9,4,9,6,7,2,9,5>>), Dec(FALSE, <<4,2,9,4,9,6,7,2,9,6>>),
    Dec(FALSE, <<4,2,9,4,9,6,7,3,1,1>>), Dec(TRUE, <<4,2,9,4,9,6,7,3,1,1>>),
    Dec(FALSE, <<9,2,2,3,3,7,2,0,3,6,8,5,4,7,7,5,8,0,7>>),
    Dec(FALSE, <<9,2,2,3,3,7,2,0,3,6,8,5,4,7,7,5,8,0,8>>),
    Dec(TRUE, <<9,2,2,3,3,7,2,0,3,6,8,5,4,7,7,5,8,0,8>>),
    Dec(TRUE, <<9,2,2,3,3,7,2,0,3,6,8,5,4,7,7,5,8,0,9>>),
    Dec(FALSE, <<1,8,4,4,6,7,4,4,0,7,3,7,0,9,5,5,1,6,1,5>>),
    Dec(FALSE, <<1,8,4,4,6,7,4,4,0,7,3,7,0,9,5,5,1,6,1,6>>) }

(* The serde_json values handed to to_i32. *)
JsonValues ==
  {[type |-> "Number", text |-> t] : t \in IntTexts}
    \cup {[type |-> "String", text |-> t] : t \in IntTexts \cup {Dec(FALSE, <<>>)}}
    \cup {[type |-> "Null"], [type |-> "Bool"]}

DecodeError(m) == [kind |-> "DecodeError", msg |-> m]

(* str::parse::<i32>: checked multiply by ten and checked add (subtract    *)
(* for a negative text) of each digit; acc.over is set once a step fails.   *)
RECURSIVE ParseDigits(_, _, _)
ParseDigits(neg, digits, acc) ==
  IF digits = <<>> \/ acc.over THEN acc
  ELSE LET d == Head(digits)
           fails == IF neg
                      THEN acc.v < -(MaxI32 \div 10) \/ acc.v * 10 < MinI32 + d
                      ELSE acc.v > MaxI32 \div 10 \/ acc.v * 10 > MaxI32 - d
           next == IF fails THEN [over |-> TRUE, v |-> 0]
                   ELSE [over |-> FALSE,
                         v |-> IF neg THEN acc.v * 10 - d ELSE acc.v * 10 + d]
       IN ParseDigits(neg, Tail(digits), next)

ParseI32(text) ==
  IF text.digits = <<>> THEN DecodeError("cannot parse integer from empty string")
  ELSE LET r == ParseDigits(text.neg, text.digits, [over |-> FALSE, v |-> 0])
       IN IF r.over THEN DecodeError("number too large or too small")
          ELSE Ok(r.v)

(* The magnitude of a decimal text as limbs l[1..4] of 16 bits, with `over` *)
(* set once it no longer fits 64 bits.                                      *)
RECURSIVE Magnitude(_, _)
Magnitude(digits, m) ==
  IF digits = <<>> THEN m
  ELSE LET t1 == m.l[1] * 10 + Head(digits)
           t2 == m.l[2] * 10 + t1 \div 65536
           t3 == m.l[3] * 10 + t2 \div 65536
           t4 == m.l[4] * 10 + t3 \div 65536
       IN Magnitude(Tail(digits),
                    [l |-> <<t1 % 65536, t2 % 65536, t3 % 65536, t4 % 65536>>,
                     over |-> m.over \/ t4 >= 65536])

(* Number::as_i64 is Some: the value lies in -2^63 .. 2^63 - 1. *)
FitsI64(neg, m) ==
  /\ ~m.over
  /\ \/ m.l[4] < 32768
     \/ neg /\ m.l[4] = 32768 /\ m.l[3] = 0 /\ m.l[2] = 0 /\ m.l[1] = 0

(* The 32-bit pattern <<low, high>> read as an i32. *)
Signed32(lo, hi) == IF hi < 32768 THEN hi * 65536 + lo ELSE (hi - 65536) * 65536 + lo

(* `as i32` of an i64: the low 32 bits of the two's complement value. *)
CastI32(neg, m) ==
  Ok(IF ~neg THEN Signed32(m.l[1], m.l[2])
     ELSE IF m.l[1] = 0 /\ m.l[2] = 0 THEN 0
     ELSE IF m.l[1] = 0 THEN Signed32(0, 65536 - m.l[2])
     ELSE Signed32(65536 - m.l[1], 65535 - m.l[2]))

to_i32(json) ==
  IF json.type = "String" THEN ParseI32(json.text)
  ELSE IF json.type = "Number"
    THEN LET m == Magnitude(json.text.digits, [l |-> <<0, 0, 0, 0>>, over |-> FALSE])
         IN IF FitsI64(json.text.neg, m) THEN CastI32(json.text.neg, m)
            ELSE DecodeError("Invalid number")
  ELSE DecodeError("wrong type")

(* serde decoding an integer-typed field of a payload *)
Decode(json) ==
  /\ call.op = "none"
  /\ call' = [op |-> "decode", json |-> json]
  /\ outcome' = to_i32(json)
  /\ UNCHANGED <<http, streamVars>>

DecodeField == \E json \in JsonValues : Decode(json)

RestNext ==
  \/ PlaceOrder
  \/ CancelOrder
  \/ FetchAccount
  \/ DecodeField

RestSpec == Init /\ [][RestNext]_vars

--------------------------------------------------------------------------
(* Vocabulary of the properties *)

Range(seq) == {seq[i] : i \in 1..Len(seq)}

ReaderFailed == rpc \in {"panic_read", "panic_utf8", "panic_json", "panic_pong"}

(* A payload frame that does not decode to a Stream Envelope. *)
Undecodable(f) ==
  \/ f.kind = "Text" /\ ~(f.value.wf /\ f.value.stream \in StreamTags)
  \/ f.kind = "Binary" /\ ~f.value.utf8
  \/ f.kind = "Binary" /\ f.value.utf8
       /\ ~(f.value.text.wf /\ f.value.text.stream \in StreamTags)

(* The wire text of a payload frame. *)
TextOf(f) == IF f.kind = "Text" THEN f.value ELSE f.value.text

(* A payload frame carrying a trade_updates or account_updates envelope. *)
IsDomainFrame(f) ==
  /\ f.kind \in {"Text", "Binary"}
  /\ ~Undecodable(f)
  /\ TextOf(f).stream \in {"trade_updates", "account_updates"}

(* The Order/Account envelopes of a frame sequence, in arrival order. *)
RECURSIVE DomainEvents(_)
DomainEvents(fs) ==
  IF fs = <<>> THEN <<>>
  ELSE LET f == Head(fs)
           rest == DomainEvents(Tail(fs))
       IN IF IsDomainFrame(f)
            THEN <<[variant |-> IF TextOf(f).stream = "trade_updates"
                                  THEN "Order" ELSE "Account",
                    data |-> TextOf(f).data]>> \o rest
            ELSE rest

--------------------------------------------------------------------------
C2_OnlyDomainEventsForwarded == events = DomainEvents(taken)

(* Two events were forwarded around an authorization envelope. *)
C2_Witness ==
  /\ Len(events) = 2
  /\ events[1].variant # events[2].variant
  /\ \E f \in Range(taken) :
       f.kind = "Text" /\ f.value.wf /\ f.value.stream = "authorization"

(* C3: once the shutdown flag is true, no further item is forwarded to the *)
(* caller-visible event sequence.                                          *)
C3_NoForwardAfterStop == [][shutdown => events' = events]_vars

(* C4: once the shutdown flag is true, the writer writes no frame other    *)
(* than the one whose send was in progress when the flag was set: a frame  *)
(* it took from the queue with the flag already true is never written.     *)
C4_NoLateWrite == [][written' # written => ~wlate]_vars

(* C5: an undecodable payload frame (Text that is no Stream Envelope,      *)
(* Binary that is not UTF-8) is dropped and the reader keeps running.      *)
C5_UndecodableFrameOnlyDropped ==
  (\E f \in Range(taken) : Undecodable(f)) => ~ReaderFailed

(* C6: the shutdown flag is monotonic: once true, no step sets it false.   *)
C6_ShutdownMonotonic == [][shutdown => shutdown']_vars

(* The flag was set by stop() alone and the writer and the reader have     *)
(* both acted after it.                                                    *)
C6_Witness ==
  /\ shutdown
  /\ wpc = "done"
  /\ events # <<>>
  /\ \A f \in Range(taken) : f.kind # "Close"

(* C7: once the shutdown flag is true on an open connection, the writer    *)
(* eventually exits cleanly (by its break) and the reader eventually       *)
(* exits: the event stream has ended, or is gone.                          *)
C7_ShutdownLeadsToClosed ==
  (shutdown /\ started = "stream") ~> (wpc = "done" /\ (rpc = "ended" \/ ~alive))

(* C8: each closing trigger leaves the shutdown flag true: a Close frame   *)
(* taken by the reader, a failed socket read in the reader, a failed       *)
(* socket write in the writer (stop() sets it in its own step).            *)
C8_ClosingTriggersSetFlag ==
  (\/ \E f \in Range(taken) : f.kind \in {"Close", "Err"}
   \/ wpc = "panic_send") => shutdown

(* C9: when the socket cannot be opened, start() returns a StreamingFailed *)
(* error to its caller, without aborting, a writer task or a frame queued. *)
C9_ConnectFailureReturnsError ==
  socket = "refused" =>
    /\ started = "err_StreamingFailed"
    /\ wpc = "none"
    /\ queue = <<>>

(* C10: the caller-visible event sequence ends rather than aborting when   *)
(* the socket fails at socket level, and it eventually ends (or is given   *)
(* up by the caller) once the socket has closed or stop() was called.      *)
C10_EventSequenceEnds ==
  /\ []((\E f \in Range(taken) : f.kind = "Err") => rpc = "ended")
  /\ (started = "stream" /\ (shutdown \/ socket = "closed"))
       ~> (rpc = "ended" \/ (~alive /\ ~ReaderFailed))

--------------------------------------------------------------------------
(* Vocabulary of the queue properties *)

IsPrefix(a, b) == Len(a) <= Len(b) /\ \A i \in 1..Len(a) : a[i] = b[i]

(* The reader took a new item from the socket in this step. *)
TookItem == Len(taken') = Len(taken) + 1

NewItem == taken'[Len(taken')]

(* Pings for which the reader's pong_tx.send succeeded. *)
PingsAnswered ==
  Cardinality({i \in 1..Len(taken) : taken[i].kind = "Ping"})
    - (IF rpc = "panic_pong" THEN 1 ELSE 0)

(* Every frame enqueued on the channel so far, in enqueue order. *)
Enqueued ==
  IF started = "stream"
    THEN SetupFrames \o [i \in 1..PingsAnswered |-> PongFrame]
    ELSE <<>>

(* C15: every connection begins with the shutdown flag false, so a stop()  *)
(* issued before start() does not keep the new connection's writer from    *)
(* sending the authentication and subscription frames.                     *)
C15_ConnectionBeginsWithFlagFalse ==
  [][(started' # started /\ started' \in {"pending", "stream"}) => ~shutdown']_vars

(* C16: the frames written to the socket, with the one being sent, are a   *)
(* prefix of the frames enqueued, in enqueue order: nothing is reordered   *)
(* or duplicated.                                                          *)
C16_WrittenIsPrefixOfEnqueued ==
  IsPrefix(written \o (IF wpc = "send" THEN <<wmsg>> ELSE <<>>), Enqueued)

(* Setup frames and a Pong are written while a later Pong waits in the queue. *)
C16_Witness ==
  /\ Len(written) >= 3
  /\ written[3] = PongFrame
  /\ queue # <<>>

(* C17: for every Ping taken the reader enqueues exactly one Pong and      *)
(* forwards nothing; for an item of any other kind it enqueues nothing.    *)
C17_OnePongPerPing ==
  [][TookItem =>
       IF NewItem.kind = "Ping"
         THEN queue' = Append(queue, PongFrame) /\ events' = events
         ELSE queue' = queue]_vars

(* C18: while the writer waits on an empty outbound queue, the reader can  *)
(* still take an inbound frame, also on a single executor thread.          *)
C18_WriterWaitLeavesReaderRunnable ==
  (/\ wpc = "recv"
   /\ queue = <<>>
   /\ rpc = "open"
   /\ alive
   /\ Len(taken) < MaxInbound) => ENABLED ReaderStep

(* C19: whenever the reader handles a Ping, the outbound queue still has a *)
(* live consumer: the writer loop has not exited.                          *)
C19_PongAlwaysHasConsumer ==
  [][(TookItem /\ NewItem.kind = "Ping") => ReceiverAlive]_vars

(* C20: the writer's receive never fails with a disconnected queue, also   *)
(* when the caller drops the event sequence without calling stop() (runs   *)
(* in which the reader itself failed are left aside).                      *)
C20_RecvNeverDisconnected == ~ReaderFailed => wpc # "panic_recv"

--------------------------------------------------------------------------
(* Vocabulary of the REST properties *)

(* A precondition of order placement is violated. *)
ViolatesPrecondition(b) ==
  \/ b.order_type \in {"Limit", "StopLimit"} /\ b.limit_price = "None"
  \/ b.order_type \in {"Stop", "StopLimit"} /\ b.stop_price = "None"
  \/ b.extended_hours /\ b.order_type # "Limit"
  \/ b.extended_hours /\ b.time_in_force # "DAY"

(* C11: place returns OrderInvalid and issues no HTTP request whenever a   *)
(* precondition is violated (limit price, stop price, extended hours);     *)
(* otherwise it issues exactly one POST.                                   *)
C11_PlacePreconditions ==
  call.op = "place" =>
    IF ViolatesPrecondition(call.builder)
      THEN outcome.kind = "OrderInvalid" /\ http = <<>>
      ELSE /\ http = <<[method |-> "POST", path |-> "v2/orders"]>>
           /\ outcome.kind # "OrderInvalid"

(* A StopLimit order with a limit price but no stop price was refused. *)
C11_Witness ==
  /\ call.op = "place"
  /\ call.builder.order_type = "StopLimit"
  /\ call.builder.limit_price = "Some"
  /\ call.builder.stop_price = "None"
  /\ outcome.kind = "OrderInvalid"
  /\ http = <<>>

(* C12: cancel maps the status totally: a success status gives Ok; 404     *)
(* gives OrderNotFound with the order's id; 422 gives OrderNotCancelable   *)
(* with the order's id; every other non-success status gives Unknown.      *)
C12_CancelStatusMapping ==
  (call.op = "cancel" /\ call.reply.transport = "ok") =>
    outcome =
      CASE call.reply.status \in 200..299 -> [kind |-> "Ok", value |-> "()"]
        [] call.reply.status = 404 -> [kind |-> "OrderNotFound", order_id |-> call.id]
        [] call.reply.status = 422 -> [kind |-> "OrderNotCancelable", order_id |-> call.id]
        [] OTHER -> [kind |-> "Unknown"]

(* A cancel answered 422 failed as not cancelable, naming its order. *)
C12_Witness ==
  /\ call.op = "cancel"
  /\ call.id = "id2"
  /\ call.reply.transport = "ok"
  /\ call.reply.status = 422
  /\ outcome = [kind |-> "OrderNotCancelable", order_id |-> "id2"]

(* C13: Account::get gives InvalidCredentials for 403 and any other        *)
(* non-success status whatever the body, BadData for a success status with *)
(* an undecodable body, RequestFailed for a transport failure, and the     *)
(* Account only for a success status with a decodable body.                *)
C13_AccountOutcomes ==
  call.op = "account" =>
    /\ call.reply.transport = "fail" => outcome.kind = "RequestFailed"
    /\ (call.reply.transport = "ok" /\ call.reply.status \notin 200..299)
         => outcome.kind = "InvalidCredentials"
    /\ (call.reply.transport = "ok" /\ call.reply.status \in 200..299
          /\ call.reply.body = "corrupt") => outcome.kind = "BadData"
    /\ outcome.kind = "Ok" <=>
         (call.reply.transport = "ok" /\ call.reply.status \in 200..299
            /\ call.reply.body = "valid")

(* A 403 with an undecodable body was reported as InvalidCredentials. *)
C13_Witness ==
  /\ call.op = "account"
  /\ call.reply.transport = "ok"
  /\ call.reply.status = 403
  /\ call.reply.body = "corrupt"
  /\ outcome.kind = "InvalidCredentials"

(* The same integer in the other JSON form. *)
OtherForm(json) ==
  [json EXCEPT !.type = IF json.type = "Number" THEN "String" ELSE "Number"]

SameDecoding(a, b) ==
  \/ a.kind = "DecodeError" /\ b.kind = "DecodeError"
  \/ a.kind = "Ok" /\ b.kind = "Ok" /\ a.value = b.value

(* C14: an integer field decodes alike from the JSON number v and from the *)
(* JSON string of v: the same value, or a decode error in both forms, also *)
(* for v outside the 32-bit range.                                         *)
C14_NumberAndStringDecodeAlike ==
  (call.op = "decode" /\ call.json.type \in {"Number", "String"}
     /\ call.json.text \in IntTexts)
    => SameDecoding(outcome, to_i32(OtherForm(call.json)))

==========================================================================
